---- MODULE Spec2Model ----
(***************************************************************************)
(* Emergency-department queue simulation (src/ifem_award_api/app.py).      *)
(*                                                                         *)
(* The state is what the program keeps in Redis: one key per patient and   *)
(* the 'last_update' timestamp.  One action models a whole /api/v1/queue   *)
(* request (get_queue, with the update_patients pass it runs and the       *)
(* bootstrap that follows); one action models the passing of time, with    *)
(* the expiry Redis applies to the patient keys.                           *)
(*                                                                         *)
(* Time is counted in whole minutes and kept relative: last_update_age is  *)
(* the number of minutes since the stored 'last_update' timestamp,         *)
(* key_age the number of minutes since the patient keys were written.      *)
(* Both are capped at the largest value the code compares them with.       *)
(***************************************************************************)
EXTENDS Integers, Sequences, FiniteSets, TLC

(***************************************************************************)
(* Bounds.  The program's own numbers are in the comments; the model runs  *)
(* the same code on a scaled-down population and clock.                    *)
(***************************************************************************)
BootCount == 1      \* generate_mock_patients(count=25)
Floor == 2          \* len(patients) < 30
Interval == 2       \* minutes_passed // 15
Ttl == 3            \* expire(key, 24*60*60), in minutes
MaxCat == 2         \* categories the generator draws from, 1..MaxCat
MaxArrival == 1     \* arrival times the generator draws from, 0..MaxArrival
RankPop == 3        \* population of the one-pass specifications
ConcPop == 2        \* population two concurrent requests start from

NumCategories == 5  \* range(1, 6)

Max(a, b) == IF a > b THEN a ELSE b
Min(a, b) == IF a < b THEN a ELSE b

\* Patient ids are names drawn from a finite pool.  An id is handed out
\* again once its key has been deleted and no request in flight holds it:
\* nothing else in the program remembers a removed id, and last.created
\* tells a new patient from the old one.  The pool is large enough for two
\* requests in flight, each replacing a whole population, growing it and
\* bootstrapping it.
Ids == 1..(3 * Max(Max(Floor, BootCount), Max(RankPop, ConcPop)) + 2 * BootCount + 2)

Terminal == {"discharged", "admitted"}
Phases == {"registered", "triaged", "investigations_pending", "treatment"} \cup Terminal
InvestigationState == {"ordered", "pending", "reported"}
TestTypes == {"labs", "imaging"}

\* patient.status without an 'investigations' key
NoInvestigations == [labs |-> "absent", imaging |-> "absent"]

VARIABLES
    patients,         \* Redis keys patient:<id>  ->  serialized patient
    has_last_update,  \* the Redis key 'last_update' exists
    last_update_age,  \* minutes since the timestamp in 'last_update'
    key_age,          \* minutes since the patient keys were (re)written
    reqs,             \* the requests in flight, step by step (RequestIds -> local state);
                      \* requests that run as one step leave it alone
    last              \* what the last step did (history, read by the properties):
                      \*   op              "init", "request" or "tick"
                      \*   had_cursor      'last_update' existed when the request started
                      \*   minutes_passed  the request's minutes_passed
                      \*   passes          calls of update_patients the request made
                      \*   failed          the request ended in an exception
                      \*   scan            the order in which the pass read the keys
                      \*   removed         ids the pass deleted
                      \*   created         ids of the patients generated by the request
                      \*   grown           id of the patient of the growth branch
                      \*   booted          the request filled an empty store

vars == <<patients, has_last_update, last_update_age, key_age, reqs, last>>

(***************************************************************************)
(* The population generator (patients.py, not part of the sources): a      *)
(* fresh patient with a triage category, an arrival time and a status.     *)
(***************************************************************************)
GenStatuses ==
    { [current_phase |-> "registered", investigations |-> NoInvestigations],
      [current_phase |-> "investigations_pending",
       investigations |-> [labs |-> "ordered", imaging |-> "pending"]],
      [current_phase |-> "discharged",
       investigations |-> [labs |-> "pending", imaging |-> "reported"]] }

\* the later arrival times are drawn for category 1 only: with the other
\* categories at arrival time 0 every order of two keys occurs
GenChoices ==
    {g \in [triage_category : 1..MaxCat, arrival_time : 0..MaxArrival, status : GenStatuses] :
        g.triage_category = 1 \/ g.arrival_time = 0}

generate_mock_patient(id, g) ==
    [id |-> id,
     triage_category |-> g.triage_category,
     arrival_time |-> g.arrival_time,
     status |-> g.status,
     queue_position |-> [global |-> 0, category |-> 0]]

\* the n smallest ids of the pool that are not in used, in increasing order
RECURSIVE FreshIds(_, _)
FreshIds(n, used) ==
    IF n = 0 THEN <<>>
    ELSE LET id == CHOOSE i \in Ids \ used : \A j \in Ids \ used : i <= j
         IN <<id>> \o FreshIds(n - 1, used \cup {id})

\* generate_mock_patients / repeated generate_mock_patient(): one patient per choice
\* a loop that generates one patient more than it was asked for
NewPatientsOneMore(gs, used) ==
    LET more == IF gs = <<>> THEN gs ELSE gs \o <<gs[1]>>
        ids == FreshIds(Len(more), used)
    IN [i \in 1..Len(more) |-> generate_mock_patient(ids[i], more[i])]

NewPatients(gs, used) ==
    LET ids == FreshIds(Len(gs), used)
    IN [i \in 1..Len(gs) |-> generate_mock_patient(ids[i], gs[i])]

(***************************************************************************)
(* progress_patient_phase                                                  *)
(***************************************************************************)
\* the dict phase_transitions; choice is the outcome of random.choices
phase_transitions(choice) ==
    [registered |-> "triaged",
     triaged |-> "investigations_pending",
     investigations_pending |-> "treatment",
     treatment |-> choice]

\* AdvanceTest with the second branch assigning the wrong state
AdvanceTestBackwards(current_state) ==
    IF current_state = "ordered" THEN "pending"
    ELSE IF current_state = "pending" THEN "ordered"
    ELSE current_state

\* lines 61-65: one test's state moves one step, 'reported' stays
AdvanceTest(current_state) ==
    IF current_state = "ordered" THEN "pending"
    ELSE IF current_state = "pending" THEN "reported"
    ELSE current_state

\* progress_patient_phase that also re-triages the patient it advances
progress_patient_phase_retriage(patient, choice) ==
    LET current_phase == patient.status.current_phase
        table == phase_transitions(choice)
    IN IF current_phase \in DOMAIN table
       THEN [patient EXCEPT !.status.current_phase = table[current_phase],
                            !.triage_category = 1]
       ELSE patient

\* 'if' in place of 'elif': the tests just ordered are advanced in the same pass
progress_patient_phase_advance_ordered(patient, choice) ==
    LET current_phase == patient.status.current_phase
        table == phase_transitions(choice)
    IN IF current_phase \in DOMAIN table
       THEN LET new_phase == table[current_phase]
                investigations ==
                    IF new_phase = "investigations_pending"
                    THEN [t \in TestTypes |-> AdvanceTest("ordered")]
                    ELSE IF current_phase = "investigations_pending"
                            /\ patient.status.investigations # NoInvestigations
                    THEN [t \in TestTypes |-> AdvanceTest(patient.status.investigations[t])]
                    ELSE patient.status.investigations
            IN [patient EXCEPT !.status = [current_phase |-> new_phase,
                                           investigations |-> investigations]]
       ELSE patient

progress_patient_phase(patient, choice) ==
    LET current_phase == patient.status.current_phase
        table == phase_transitions(choice)
    IN IF current_phase \in DOMAIN table
       THEN LET new_phase == table[current_phase]
                investigations ==
                    IF new_phase = "investigations_pending"
                    THEN [labs |-> "ordered", imaging |-> "ordered"]
                    ELSE IF current_phase = "investigations_pending"
                            /\ patient.status.investigations # NoInvestigations
                    THEN [t \in TestTypes |-> AdvanceTest(patient.status.investigations[t])]
                    ELSE patient.status.investigations
            IN [patient EXCEPT !.status = [current_phase |-> new_phase,
                                           investigations |-> investigations]]
       ELSE patient

(***************************************************************************)
(* Sorting and position assignment                                         *)
(***************************************************************************)
\* key=lambda p: (p.triage_category, p.arrival_time), compared as tuples
KeyLess(p, q) ==
    \/ p.triage_category < q.triage_category
    \/ p.triage_category = q.triage_category /\ p.arrival_time < q.arrival_time

\* a sort that is not stable: p goes before the elements of equal key
RECURSIVE InsertSortedUnstable(_, _)
InsertSortedUnstable(sorted, p) ==
    IF sorted = <<>> THEN <<p>>
    ELSE IF ~KeyLess(Head(sorted), p) THEN <<p>> \o sorted
    ELSE <<Head(sorted)>> \o InsertSortedUnstable(Tail(sorted), p)

\* list.sort is stable: p goes after every element whose key is not greater
RECURSIVE InsertSorted(_, _)
InsertSorted(sorted, p) ==
    IF sorted = <<>> THEN <<p>>
    ELSE IF KeyLess(p, Head(sorted)) THEN <<p>> \o sorted
    ELSE <<Head(sorted)>> \o InsertSorted(Tail(sorted), p)

RECURSIVE SortPatients(_)
SortPatients(list) ==
    IF list = <<>> THEN <<>>
    ELSE InsertSorted(SortPatients(SubSeq(list, 1, Len(list) - 1)), list[Len(list)])

\* {i: 1 for i in range(1, 6)}
InitialCategoryPositions == [i \in 1..NumCategories |-> 1]

\* AssignPositions that writes the global counter as the category position
RECURSIVE AssignPositionsGlobalOnly(_, _, _)
AssignPositionsGlobalOnly(list, global_pos, category_positions) ==
    IF list = <<>>
    THEN [patients |-> <<>>, global_pos |-> global_pos,
          category_positions |-> category_positions]
    ELSE LET p == Head(list)
             q == [p EXCEPT !.queue_position =
                       [global |-> global_pos, category |-> global_pos]]
             rest == AssignPositionsGlobalOnly(Tail(list), global_pos + 1,
                         [category_positions EXCEPT ![p.triage_category] = @ + 1])
         IN [patients |-> <<q>> \o rest.patients,
             global_pos |-> rest.global_pos,
             category_positions |-> rest.category_positions]

\* the numbering loops (lines 96-104, 107-115, 163-172): every patient of the
\* list gets the current counters, which are then advanced
RECURSIVE AssignPositions(_, _, _)
AssignPositions(list, global_pos, category_positions) ==
    IF list = <<>>
    THEN [patients |-> <<>>, global_pos |-> global_pos,
          category_positions |-> category_positions]
    ELSE LET p == Head(list)
             q == [p EXCEPT !.queue_position =
                       [global |-> global_pos,
                        category |-> category_positions[p.triage_category]]]
             rest == AssignPositions(Tail(list), global_pos + 1,
                         [category_positions EXCEPT ![p.triage_category] = @ + 1])
         IN [patients |-> <<q>> \o rest.patients,
             global_pos |-> rest.global_pos,
             category_positions |-> rest.category_positions]

\* ed_state.add_patient for every patient of a list: the key patient:<id> is overwritten
AddPatients(stored, list) ==
    [id \in DOMAIN stored \cup {list[i].id : i \in DOMAIN list} |->
        IF \E i \in DOMAIN list : list[i].id = id
        THEN list[CHOOSE i \in DOMAIN list :
                     /\ list[i].id = id
                     /\ \A j \in DOMAIN list : list[j].id = id => j <= i]
        ELSE stored[id]]

\* ed_state.remove_patient for a set of ids
RemovePatients(stored, ids) == [id \in DOMAIN stored \ ids |-> stored[id]]

\* the orders in which scan_iter can return the keys of S
ScanOrders(S) ==
    {s \in [1..Cardinality(S) -> S] : \A i, j \in 1..Cardinality(S) : s[i] = s[j] => i = j}

EmptyStore == [id \in {} |-> 0]

(***************************************************************************)
(* update_patients: one pass over the population read from the store.      *)
(*   stored  the patient keys when the pass starts                         *)
(*   scan    the order in which get_patients returned them                 *)
(*   choice  the outcome of random.choices for each patient in treatment   *)
(*   gs      what generate_mock_patient returns for the replacements       *)
(*   coin    len(patients) < 30 and random.random() < 0.3                  *)
(*   g       what generate_mock_patient returns on the growth branch       *)
(* The result is the store after the pass and a summary of the pass;       *)
(* failed means the pass raised (UnboundLocalError on global_pos, line     *)
(* 121, when the growth branch runs and nothing was removed).              *)
(***************************************************************************)
update_patients(stored, scan, choice, gs, coin, g) ==
    LET patient_list == SortPatients([i \in 1..Len(scan) |-> stored[scan[i]]])
        \* first loop: terminal patients are deleted, the others progress in memory
        removed_patients ==
            {patient_list[i].id : i \in {j \in DOMAIN patient_list :
                                    patient_list[j].status.current_phase \in Terminal}}
        progressed ==
            [i \in DOMAIN patient_list |->
                IF patient_list[i].id \in removed_patients
                THEN patient_list[i]
                ELSE progress_patient_phase(patient_list[i],
                         IF patient_list[i].id \in DOMAIN choice
                         THEN choice[patient_list[i].id] ELSE "discharged")]
        after_removal == RemovePatients(stored, removed_patients)
        \* second loop: only if something was removed
        survivors == SelectSeq(progressed, LAMBDA p : p.id \notin removed_patients)
        ranked == AssignPositions(survivors, 1, InitialCategoryPositions)
        replacements ==
            AssignPositions(NewPatients(gs, DOMAIN after_removal),
                            ranked.global_pos, ranked.category_positions)
        renumbered ==
            AddPatients(AddPatients(after_removal, ranked.patients), replacements.patients)
        after_second == IF removed_patients # {} THEN renumbered ELSE after_removal
        \* growth branch
        new_patient == generate_mock_patient(FreshIds(1, DOMAIN after_second)[1], g)
        grown ==
            [new_patient EXCEPT !.queue_position =
                [global |-> replacements.global_pos,
                 category |-> replacements.category_positions[new_patient.triage_category]]]
    IN IF coin /\ removed_patients = {}
       THEN [patients |-> after_second, failed |-> TRUE, wrote |-> FALSE,
             removed |-> removed_patients, created |-> {}, grown |-> {}]
       ELSE IF coin
       THEN [patients |-> AddPatients(after_second, <<grown>>), failed |-> FALSE,
             wrote |-> TRUE, removed |-> removed_patients,
             created |-> {replacements.patients[i].id : i \in DOMAIN replacements.patients}
                            \cup {grown.id},
             grown |-> {grown.id}]
       ELSE [patients |-> after_second, failed |-> FALSE,
             wrote |-> removed_patients # {}, removed |-> removed_patients,
             created |-> IF removed_patients = {} THEN {}
                         ELSE {replacements.patients[i].id : i \in DOMAIN replacements.patients},
             grown |-> {}]

\* lines 153-172 of get_queue: an empty store is filled with a sorted, numbered population
Bootstrap(gs) ==
    AddPatients(EmptyStore,
        AssignPositions(SortPatients(NewPatients(gs, {})), 1, InitialCategoryPositions).patients)

\* the loop running once per elapsed interval: range(updates_needed)
PassesPerInterval(updates_needed) == updates_needed

\* the growth test taken one patient too late
GrowthAllowedAtFloor(n) == n <= Floor

\* line 118: len(patients) < 30
GrowthAllowed(n) == n < Floor

\* line 141: for _ in range(1)
PassesPerRequest(updates_needed) == 1

NoOp ==
    [op |-> "init", had_cursor |-> FALSE, minutes_passed |-> 0, passes |-> 0,
     failed |-> FALSE, scan |-> <<>>, removed |-> {}, created |-> {}, grown |-> {},
     booted |-> FALSE]

\* the two requests of the step-by-step specifications
RequestIds == {1, 2}

\* a request that has not started: the locals of update_patients.  The
\* counters global_pos and category_positions are unbound in the code until
\* a pass has removed a patient (removed_count > 0); no step reads them before.
IdleRequest ==
    [pc |-> "idle", snapshot |-> EmptyStore, patient_list |-> <<>>, to_remove |-> <<>>,
     i |-> 1, removed_count |-> 0, global_pos |-> 1,
     category_positions |-> InitialCategoryPositions, replaced |-> 0, created |-> {}]

Init ==
    /\ patients = EmptyStore
    /\ has_last_update = FALSE
    /\ last_update_age = 0
    /\ key_age = 0
    /\ reqs = [r \in RequestIds |-> IdleRequest]
    /\ last = NoOp

\* lines 149-172, after the store has become stored: bootstrap if it is empty
FinishRequest(stored, wrote, summary) ==
    IF DOMAIN stored = {}
    THEN \E gs \in [1..BootCount -> GenChoices] :
            /\ patients' = Bootstrap(gs)
            /\ key_age' = 0
            /\ last' = [summary EXCEPT !.booted = TRUE, !.created = DOMAIN patients']
    ELSE /\ patients' = stored
         /\ key_age' = IF wrote THEN 0 ELSE key_age
         /\ last' = summary

\* get_queue, line 146-147: no 'last_update' yet, it is set and no pass runs
FirstRequest ==
    /\ ~has_last_update
    /\ has_last_update' = TRUE
    /\ last_update_age' = 0
    /\ FinishRequest(patients, FALSE, [NoOp EXCEPT !.op = "request"])
    /\ UNCHANGED reqs

\* get_queue, lines 136-145: 'last_update' exists, the pass runs
UpdateRequest ==
    /\ has_last_update
    /\ LET minutes_passed == last_update_age
           updates_needed == minutes_passed \div Interval
           passes == PassesPerRequest(updates_needed)
           summary == [NoOp EXCEPT !.op = "request", !.had_cursor = TRUE,
                                   !.minutes_passed = minutes_passed,
                                   !.passes = passes]
       IN IF passes = 0
          THEN /\ has_last_update' = TRUE
               /\ last_update_age' = IF updates_needed > 0 THEN 0 ELSE last_update_age
               /\ FinishRequest(patients, FALSE, summary)
          ELSE
          \E scan \in ScanOrders(DOMAIN patients) :
          \E choice \in [{id \in DOMAIN patients :
                            patients[id].status.current_phase = "treatment"} -> Terminal] :
          \E gs \in [1..Cardinality({id \in DOMAIN patients :
                            patients[id].status.current_phase \in Terminal}) -> GenChoices] :
          \E coin \in {c \in BOOLEAN : c => GrowthAllowed(Cardinality(DOMAIN patients))} :
          \E g \in IF coin THEN GenChoices ELSE {CHOOSE x \in GenChoices : TRUE} :
             LET pass == update_patients(patients, scan, choice, gs, coin, g)
                 done == [summary EXCEPT !.failed = pass.failed,
                                         !.scan = scan,
                                         !.removed = pass.removed,
                                         !.created = pass.created,
                                         !.grown = pass.grown]
                 \* line 70: the pass has set 'last_update' to its current time
                 age_after_pass == 0
             IN /\ has_last_update' = TRUE
                /\ last_update_age' =
                      IF pass.failed THEN age_after_pass
                      \* lines 144-145: set again, to the time the request started
                      ELSE IF updates_needed > 0 THEN 0 ELSE age_after_pass
                /\ IF pass.failed
                   THEN \* the exception ends the request
                        /\ patients' = pass.patients
                        /\ key_age' = key_age
                        /\ last' = done
                   ELSE FinishRequest(pass.patients, pass.wrote, done)
    /\ UNCHANGED reqs

GetQueue == FirstRequest \/ UpdateRequest

\* a minute passes; Redis drops the patient keys whose 24 hours are over
Tick ==
    /\ \/ has_last_update /\ last_update_age < Interval
       \/ DOMAIN patients # {}
    /\ last_update_age' = IF has_last_update THEN Min(last_update_age + 1, Interval)
                          ELSE last_update_age
    /\ IF DOMAIN patients # {} /\ key_age + 1 >= Ttl
       THEN patients' = EmptyStore /\ key_age' = 0
       ELSE /\ patients' = patients
            /\ key_age' = IF DOMAIN patients # {} THEN key_age + 1 ELSE key_age
    /\ last' = [NoOp EXCEPT !.op = "tick"]
    /\ UNCHANGED <<has_last_update, reqs>>

Next == GetQueue \/ Tick

Spec == Init /\ [][Next]_vars

(***************************************************************************)
(* Serial requests with no key expiring: time stands still (a pass does    *)
(* not read the clock, and a request runs one pass whatever the cursor's   *)
(* age).                                                                   *)
(***************************************************************************)
SpecServe == Init /\ [][GetQueue]_vars

(***************************************************************************)
(* One pass over a population of RankPop patients.  The store holds what   *)
(* a bootstrap of RankPop patients leaves; the one action is the request   *)
(* that follows it.  RankPop is the least population in which a pass that  *)
(* removes a patient leaves two survivors to compare.                      *)
(***************************************************************************)
RankChoices == {g \in GenChoices : g.status.current_phase # "investigations_pending"}

InitRank ==
    /\ patients \in {Bootstrap(gs) : gs \in [1..RankPop -> RankChoices]}
    /\ has_last_update = TRUE
    /\ last_update_age = 0
    /\ key_age = 0
    /\ reqs = [r \in RequestIds |-> IdleRequest]
    /\ last = [NoOp EXCEPT !.op = "request", !.booted = TRUE]

RankRequest == last.booted /\ UpdateRequest

SpecRank == InitRank /\ [][RankRequest]_vars

TypeOK ==
    /\ DOMAIN patients \subseteq Ids
    /\ \A id \in DOMAIN patients :
          /\ patients[id].id = id
          /\ patients[id].status.current_phase \in Phases
    /\ has_last_update \in BOOLEAN
    /\ last_update_age \in 0..Interval
    /\ key_age \in 0..Ttl

(***************************************************************************)
(* Properties                                                              *)
(***************************************************************************)
Stored == {patients[id] : id \in DOMAIN patients}

\* the last step was a request whose pass ran to its end
PassCompleted == last.op = "request" /\ last.passes >= 1 /\ ~last.failed

\* the stored patients that were in the store before the last request
Survivors == DOMAIN patients \ last.created

IsTerminal(p) == p.status.current_phase \in Terminal

\* the global positions of ps are exactly 1..N and, for every category k,
\* the category positions of the patients of category k are exactly 1..M_k
DenseRanking(ps) ==
    /\ {p.queue_position.global : p \in ps} = 1..Cardinality(ps)
    /\ \A k \in 1..NumCategories :
          LET of_k == {p \in ps : p.triage_category = k}
          IN {p.queue_position.category : p \in of_k} = 1..Cardinality(of_k)

\* the phase table of the specification
NextPhases(phase) ==
    CASE phase = "registered" -> {"triaged"}
      [] phase = "triaged" -> {"investigations_pending"}
      [] phase = "investigations_pending" -> {"treatment"}
      [] phase = "treatment" -> {"admitted", "discharged"}
      [] OTHER -> {}

InvRank(state) ==
    CASE state = "ordered" -> 1
      [] state = "pending" -> 2
      [] state = "reported" -> 3
      [] OTHER -> 0

\* C1: after a completed pass no patient the pass has processed is stored in
\* phase 'admitted' or 'discharged' (a patient that went from 'treatment' to a
\* terminal phase in the pass is not in the store when the pass ends).
C1_NoTerminalAfterPass ==
    PassCompleted => \A id \in Survivors : ~IsTerminal(patients[id])

\* C2: every patient stored in a non-terminal phase when a pass starts is
\* stored, after the pass, one step further along the phase table (and a
\* 'registered' patient is stored as 'triaged' without investigations),
\* whether or not another patient was removed in the pass.
C2_PhaseAdvancesEveryPass ==
    [][PassCompleted' =>
          \A id \in DOMAIN patients :
              ~IsTerminal(patients[id]) =>
                 /\ id \in DOMAIN patients' \ last'.created
                 /\ patients'[id].status.current_phase
                        \in NextPhases(patients[id].status.current_phase)
                 /\ patients[id].status.current_phase = "registered"
                        => patients'[id].status.investigations = NoInvestigations]_vars

\* C3: after a pass that removed at least one patient, the global positions
\* of the survivors and the replacements are exactly 1..N and their category
\* positions are exactly 1..M_k in every category k.
C3_DenseAfterRemoval ==
    (PassCompleted /\ last.removed # {}) =>
        DenseRanking({patients[id] : id \in DOMAIN patients \ last.grown})

\* a pass has removed a patient, kept another and written a replacement
C3_Witness ==
    /\ PassCompleted
    /\ last.removed # {}
    /\ Survivors # {}
    /\ last.created \ last.grown # {}
    /\ \E id \in Survivors : \E new \in last.created \ last.grown :
          /\ patients[id].triage_category = patients[new].triage_category
          /\ patients[id].queue_position = [global |-> 1, category |-> 1]
          /\ patients[new].queue_position = [global |-> 2, category |-> 2]

\* C4: between requests the positions of the stored non-terminal patients are
\* a dense ranking 1..N (and 1..M_k in every category) over exactly those
\* patients.
C4_LiveRankingDense ==
    DenseRanking({p \in Stored : ~IsTerminal(p)})

\* C5: a patient in 'investigations_pending' with both tests 'ordered' has both
\* 'pending' after one pass and both 'reported' after the next: the pass that
\* rewrites a patient whose tests are both 'pending' stores them 'reported'.
C5_PendingBecomesReported ==
    [][(PassCompleted' /\ last'.removed # {}) =>
          \A id \in DOMAIN patients \cap (DOMAIN patients' \ last'.created) :
              /\ (/\ patients[id].status.current_phase = "investigations_pending"
                  /\ patients[id].status.investigations
                        = [labs |-> "ordered", imaging |-> "ordered"])
                 => patients'[id].status.investigations
                        = [labs |-> "pending", imaging |-> "pending"]
              /\ (/\ patients[id].status.current_phase = "treatment"
                  /\ patients[id].status.investigations
                        = [labs |-> "pending", imaging |-> "pending"])
                 => patients'[id].status.investigations
                        = [labs |-> "reported", imaging |-> "reported"]]_vars

\* C6: a request that finds the store empty, with or without 'last_update',
\* ends without error and leaves a non-empty, densely ranked population.
C6_EmptyStoreBootstraps ==
    [][(last'.op = "request" /\ DOMAIN patients = {}) =>
          /\ ~last'.failed
          /\ DOMAIN patients' # {}
          /\ DenseRanking({patients'[id] : id \in DOMAIN patients'})]_vars

\* C7: a request that runs a pass leaves 'last_update' different from what it
\* was only if at least one full interval had passed since it was written.
C7_CursorMovesOnlyAfterInterval ==
    (last.op = "request" /\ last.had_cursor /\ last.passes >= 1) =>
        (last_update_age # last.minutes_passed => last.minutes_passed >= Interval)

\* C8: a request runs a pass exactly when 'last_update' exists at its start,
\* and then exactly one, whatever time has passed (the pass shows in
\* 'last_update', which it sets to the current time); without 'last_update'
\* the request writes the current time and changes or removes no stored patient.
C8_OnePassIffCursor ==
    [][last'.op = "request" =>
          /\ has_last_update => last'.passes = 1 /\ last_update_age' = 0
          /\ ~has_last_update =>
                /\ last'.passes = 0
                /\ has_last_update' /\ last_update_age' = 0
                /\ last'.removed = {}
                /\ \A id \in DOMAIN patients :
                      id \in DOMAIN patients' /\ patients'[id] = patients[id]]_vars

\* a request has run its pass although less than an interval had passed
C8_Witness ==
    /\ last.op = "request"
    /\ last.had_cursor
    /\ last.minutes_passed < Interval
    /\ last.passes = 1
    /\ last.removed # {}

\* C9: for every patient and test kind the investigation state only moves
\* forward along ordered -> pending -> reported, and 'reported' stays.
C9_InvestigationsMonotonic ==
    [][\A id \in DOMAIN patients \cap (DOMAIN patients' \ last'.created) :
          \A t \in TestTypes :
              /\ InvRank(patients'[id].status.investigations[t])
                    >= InvRank(patients[id].status.investigations[t])
              /\ patients[id].status.investigations[t] = "reported"
                    => patients'[id].status.investigations[t] = "reported"]_vars

\* a pass has moved a stored patient's tests forward, one of them to 'reported'
C9_Witness ==
    /\ PassCompleted
    /\ last.removed # {}
    /\ \E id \in Survivors :
          /\ patients[id].status.current_phase = "treatment"
          /\ patients[id].status.investigations = [labs |-> "pending", imaging |-> "reported"]

\* C10: a stored patient keeps its id, triage category and arrival time over
\* every request and pass, and the triage category is always in 1..5.
C10_IdentityImmutable ==
    /\ [](\A id \in DOMAIN patients :
             patients[id].id = id /\ patients[id].triage_category \in 1..NumCategories)
    /\ [][\A id \in DOMAIN patients \cap (DOMAIN patients' \ last'.created) :
             /\ patients'[id].id = patients[id].id
             /\ patients'[id].triage_category = patients[id].triage_category
             /\ patients'[id].arrival_time = patients[id].arrival_time]_vars

\* a pass has rewritten a patient of category 2 with a new phase and position
C10_Witness ==
    /\ PassCompleted
    /\ last.removed # {}
    /\ \E id \in Survivors :
          /\ patients[id].triage_category = 2
          /\ patients[id].status.current_phase = "triaged"
(***************************************************************************)
(* A request step by step: one action per store call of update_patients    *)
(* and get_queue.  What a request computes in memory between two store     *)
(* calls is done with the earlier call (no other request can see it).      *)
(* Time stands still and no key expires.                                   *)
(***************************************************************************)
\* what the generator draws in the step-by-step specifications: a patient
\* who waits or one who is terminal, of any category, arrived at time 0
StepChoices ==
    {g \in GenChoices : g.arrival_time = 0
                          /\ g.status.current_phase # "investigations_pending"}

\* ids no uuid4 can collide with: the stored ones and those a request in
\* flight has read or made
UsedIds ==
    DOMAIN patients \cup
    UNION {DOMAIN reqs[r].snapshot \cup reqs[r].created : r \in RequestIds}

\* where update_patients continues after a store call
NextStep(req) ==
    IF req.to_remove # <<>> THEN "remove"
    ELSE IF req.removed_count = 0 THEN "grow"
    ELSE IF req.i <= Len(req.patient_list) THEN "renumber"
    ELSE IF req.replaced < req.removed_count THEN "replace"
    ELSE "grow"

\* get_queue lines 137-147 and update_patients lines 68-89 up to the first
\* delete: the cursor is read and set, the population is read and sorted, and
\* the patients that are not terminal progress in memory
StartPass(r) ==
    /\ reqs[r].pc = "idle"
    /\ has_last_update' = TRUE
    /\ last_update_age' = 0
    /\ IF ~has_last_update
       THEN reqs' = [reqs EXCEPT ![r] = [IdleRequest EXCEPT !.pc = "finish"]]
       ELSE \E scan \in ScanOrders(DOMAIN patients) :
            \E choice \in [{id \in DOMAIN patients :
                              patients[id].status.current_phase = "treatment"} -> Terminal] :
               LET patient_list == SortPatients([i \in 1..Len(scan) |-> patients[scan[i]]])
                   to_remove ==
                       SelectSeq(patient_list, LAMBDA p : p.status.current_phase \in Terminal)
                   waiting ==
                       SelectSeq(patient_list, LAMBDA p : p.status.current_phase \notin Terminal)
                   progressed ==
                       [i \in DOMAIN waiting |->
                           progress_patient_phase(waiting[i],
                               IF waiting[i].id \in DOMAIN choice
                               THEN choice[waiting[i].id] ELSE "discharged")]
                   req == [IdleRequest EXCEPT !.snapshot = patients,
                                              !.patient_list = progressed,
                                              !.to_remove = to_remove]
               IN reqs' = [reqs EXCEPT ![r] = [req EXCEPT !.pc = NextStep(req)]]
    /\ UNCHANGED <<patients, key_age, last>>

\* a removal that counts only the keys it found: the reply of DEL is read
RemovePatientIfPresent(r) ==
    /\ reqs[r].pc = "remove"
    /\ LET found == Head(reqs[r].to_remove).id \in DOMAIN patients
           req == [reqs[r] EXCEPT !.to_remove = Tail(@),
                                  !.removed_count = IF found THEN @ + 1 ELSE @]
       IN /\ patients' = RemovePatients(patients, {Head(reqs[r].to_remove).id})
          /\ reqs' = [reqs EXCEPT ![r] = [req EXCEPT !.pc = NextStep(req)]]
    /\ UNCHANGED <<has_last_update, last_update_age, key_age, last>>

\* lines 84-86: ed_state.remove_patient for the next terminal patient; the
\* removal is counted whether or not the key was still there
RemovePatient(r) ==
    /\ reqs[r].pc = "remove"
    /\ LET req == [reqs[r] EXCEPT !.to_remove = Tail(@), !.removed_count = @ + 1]
       IN /\ patients' = RemovePatients(patients, {Head(reqs[r].to_remove).id})
          /\ reqs' = [reqs EXCEPT ![r] = [req EXCEPT !.pc = NextStep(req)]]
    /\ UNCHANGED <<has_last_update, last_update_age, key_age, last>>

\* lines 96-104: the next survivor takes the counters and is written back
RenumberPatient(r) ==
    /\ reqs[r].pc = "renumber"
    /\ LET ranked == AssignPositions(<<reqs[r].patient_list[reqs[r].i]>>,
                                     reqs[r].global_pos, reqs[r].category_positions)
           req == [reqs[r] EXCEPT !.i = @ + 1,
                                  !.global_pos = ranked.global_pos,
                                  !.category_positions = ranked.category_positions]
       IN /\ patients' = AddPatients(patients, ranked.patients)
          /\ reqs' = [reqs EXCEPT ![r] = [req EXCEPT !.pc = NextStep(req)]]
    /\ key_age' = 0
    /\ UNCHANGED <<has_last_update, last_update_age, last>>

\* lines 107-115: one replacement is generated, takes the counters and is stored
ReplacePatient(r) ==
    /\ reqs[r].pc = "replace"
    /\ \E g \in StepChoices :
          LET ranked == AssignPositions(NewPatients(<<g>>, UsedIds),
                                        reqs[r].global_pos, reqs[r].category_positions)
              req == [reqs[r] EXCEPT !.replaced = @ + 1,
                                     !.created = @ \cup {ranked.patients[1].id},
                                     !.global_pos = ranked.global_pos,
                                     !.category_positions = ranked.category_positions]
          IN /\ patients' = AddPatients(patients, ranked.patients)
             /\ reqs' = [reqs EXCEPT ![r] = [req EXCEPT !.pc = NextStep(req)]]
    /\ key_age' = 0
    /\ UNCHANGED <<has_last_update, last_update_age, last>>

\* lines 118-124: the growth branch; len(patients) is the length of the list
\* read at line 68, and the counters are unbound if nothing was removed
GrowQueue(r) ==
    /\ reqs[r].pc = "grow"
    /\ \E coin \in {c \in BOOLEAN :
                      c => GrowthAllowed(Cardinality(DOMAIN reqs[r].snapshot))} :
          IF ~coin
          THEN /\ reqs' = [reqs EXCEPT ![r].pc = "finish"]
               /\ UNCHANGED <<patients, key_age>>
          ELSE IF reqs[r].removed_count = 0
          THEN /\ reqs' = [reqs EXCEPT ![r].pc = "failed"]
               /\ UNCHANGED <<patients, key_age>>
          ELSE \E g \in StepChoices :
                  LET ranked == AssignPositions(NewPatients(<<g>>, UsedIds),
                                    reqs[r].global_pos, reqs[r].category_positions)
                  IN /\ patients' = AddPatients(patients, ranked.patients)
                     /\ key_age' = 0
                     /\ reqs' = [reqs EXCEPT ![r].pc = "finish",
                                             ![r].created = @ \cup {ranked.patients[1].id}]
    /\ UNCHANGED <<has_last_update, last_update_age, last>>

\* get_queue lines 149-182: the population is read again and an empty store is filled
FinishPass(r) ==
    /\ reqs[r].pc = "finish"
    /\ IF DOMAIN patients = {}
       THEN \E gs \in [1..BootCount -> StepChoices] :
               LET booted == AssignPositions(SortPatients(NewPatients(gs, UsedIds)),
                                             1, InitialCategoryPositions).patients
               IN /\ patients' = AddPatients(EmptyStore, booted)
                  /\ key_age' = 0
                  /\ reqs' = [reqs EXCEPT ![r].pc = "done",
                                          ![r].created = @ \cup DOMAIN patients']
       ELSE /\ reqs' = [reqs EXCEPT ![r].pc = "done"]
            /\ UNCHANGED <<patients, key_age>>
    /\ UNCHANGED <<has_last_update, last_update_age, last>>

\* the response is sent (or the exception answered) and the next request may start
Return(r) ==
    /\ reqs[r].pc \in {"done", "failed"}
    /\ reqs' = [reqs EXCEPT ![r] = IdleRequest]
    /\ UNCHANGED <<patients, has_last_update, last_update_age, key_age, last>>

\* serial execution: one request at a time, again and again
SerialNext ==
    \/ StartPass(1)
    \/ RemovePatient(1)
    \/ RenumberPatient(1)
    \/ ReplacePatient(1)
    \/ GrowQueue(1)
    \/ FinishPass(1)
    \/ Return(1)

\* requests keep arriving and the server runs each of them to its end
SpecSerial == Init /\ [][SerialNext]_vars /\ WF_vars(SerialNext)

\* a store that undoes the writes of the failed request
WriteFailureRollsBack(stored, snapshot) == snapshot

\* lines 82-115 run outside any transaction and catch no exception: what
\* was deleted and written before the failing call stays as it is
WriteFailure(stored, snapshot) == stored

\* ed_state.add_patient raises in the renumbering loop (lines 96-104), either
\* in redis.set, before the record is written, or in redis.expire, after it
WriteFails(r) ==
    /\ reqs[r].pc = "renumber"
    /\ \E landed \in BOOLEAN :
          LET ranked == AssignPositions(<<reqs[r].patient_list[reqs[r].i]>>,
                                        reqs[r].global_pos, reqs[r].category_positions)
              written == IF landed THEN AddPatients(patients, ranked.patients) ELSE patients
          IN /\ patients' = WriteFailure(written, reqs[r].snapshot)
             /\ reqs' = [reqs EXCEPT ![r].pc = "failed",
                                     ![r].i = IF landed THEN @ + 1 ELSE @]
    /\ UNCHANGED <<has_last_update, last_update_age, key_age, last>>

\* one request on a stocked store, any write of whose renumbering loop may fail
FailNext ==
    \/ StartPass(1)
    \/ RemovePatient(1)
    \/ RenumberPatient(1)
    \/ WriteFails(1)
    \/ ReplacePatient(1)
    \/ GrowQueue(1)
    \/ FinishPass(1)

SpecFail == InitRank /\ [][FailNext]_vars

InitConc ==
    /\ patients \in {Bootstrap(gs) : gs \in [1..ConcPop -> StepChoices]}
    /\ has_last_update = TRUE
    /\ last_update_age = 0
    /\ key_age = 0
    /\ reqs = [r \in RequestIds |-> IdleRequest]
    /\ last = [NoOp EXCEPT !.op = "request", !.booted = TRUE]

\* two requests, each running once, their store calls interleaved in any
\* order: nothing in the program locks the store or the pass
ConcNext ==
    \/ \E r \in RequestIds : StartPass(r)
    \/ \E r \in RequestIds : RemovePatient(r)
    \/ \E r \in RequestIds : RenumberPatient(r)
    \/ \E r \in RequestIds : ReplacePatient(r)
    \/ \E r \in RequestIds : GrowQueue(r)
    \/ \E r \in RequestIds : FinishPass(r)

SpecConc == InitConc /\ [][ConcNext]_vars

\* the place of id in the order the pass read the keys
ScanIndex(id) == CHOOSE i \in 1..Len(last.scan) : last.scan[i] = id

SameKey(p, q) ==
    p.triage_category = q.triage_category /\ p.arrival_time = q.arrival_time

\* C11: in a pass that renumbers, of two surviving patients the one of the
\* lower triage category, or of the same category and the earlier arrival,
\* gets the smaller global position; two survivors of equal category and
\* arrival keep the order in which the pass read them from the store.
C11_RankFollowsSortedSnapshot ==
    (PassCompleted /\ last.removed # {}) =>
        \A p \in Survivors : \A q \in Survivors :
            LET pp == patients[p]
                qq == patients[q]
            IN /\ KeyLess(pp, qq) =>
                     pp.queue_position.global < qq.queue_position.global
               /\ (SameKey(pp, qq) /\ ScanIndex(p) < ScanIndex(q)) =>
                     pp.queue_position.global < qq.queue_position.global

\* a pass removed a patient and left two survivors of equal key, read from
\* the store against the order of their ids and ranked in the order read
C11_Witness ==
    /\ PassCompleted
    /\ last.removed # {}
    /\ \E p \in Survivors : \E q \in Survivors :
          /\ p > q
          /\ SameKey(patients[p], patients[q])
          /\ ScanIndex(p) < ScanIndex(q)
          /\ patients[p].queue_position.global < patients[q].queue_position.global

\* C13: a pass that takes the growth branch never fails, whether or not it
\* removed a patient, and leaves exactly one additional patient in the store,
\* ranked right after the patients the pass ranked.
C13_GrowthPassNeverFails ==
    (last.op = "request" /\ last.passes >= 1) =>
        /\ ~last.failed
        /\ Cardinality(last.grown) <= 1
        /\ \A id \in last.grown :
              /\ id \in DOMAIN patients
              /\ patients[id].queue_position.global = Cardinality(DOMAIN patients)

\* the patients the last pass generated in place of the removed ones
Replacements == last.created \ last.grown

\* C14: a pass that removes k patients generates exactly k replacements and
\* stores them all, each at a global position greater than that of every
\* survivor.
C14_OneReplacementPerRemoval ==
    (PassCompleted /\ last.removed # {}) =>
        /\ Cardinality(Replacements) = Cardinality(last.removed)
        /\ Replacements \subseteq DOMAIN patients
        /\ \A r \in Replacements : \A s \in Survivors :
              patients[r].queue_position.global > patients[s].queue_position.global

\* a pass removed one patient of two: the survivor is first and the one
\* replacement, a patient of another category, is second
C14_Witness ==
    /\ PassCompleted
    /\ Cardinality(last.removed) = 1
    /\ Cardinality(Replacements) = 1
    /\ \E s \in Survivors : \E r \in Replacements :
          /\ patients[s].queue_position.global = 1
          /\ patients[r].queue_position.global = 2
          /\ patients[r].triage_category # patients[s].triage_category

\* C15: a patient who is 'triaged' when a pass begins is written back by the
\* pass as 'investigations_pending' with labs and imaging both 'ordered',
\* not advanced further; the investigations of a written-back patient change
\* only if the patient was 'triaged' or 'investigations_pending' at entry.
C15_TriagedGetsOrderedOnly ==
    [][(last'.op = "request" /\ last'.passes >= 1 /\ ~last'.failed /\ last'.removed # {}) =>
          \A id \in (DOMAIN patients \cap DOMAIN patients') \ last'.created :
             LET before == patients[id].status
                 after == patients'[id].status
             IN /\ before.current_phase = "triaged" =>
                      after = [current_phase |-> "investigations_pending",
                               investigations |-> [labs |-> "ordered", imaging |-> "ordered"]]
                /\ after.investigations # before.investigations =>
                      before.current_phase \in {"triaged", "investigations_pending"}]_vars

\* a pass wrote a survivor back as 'investigations_pending' with both tests
\* 'ordered': the patient was 'triaged' when the pass began
C15_Witness ==
    /\ PassCompleted
    /\ last.removed # {}
    /\ \E id \in Survivors :
          /\ patients[id].status.current_phase = "investigations_pending"
          /\ patients[id].status.investigations = [labs |-> "ordered", imaging |-> "ordered"]

\* C17: with serial requests that keep arriving, every stored patient
\* eventually is stored in a terminal phase, and every stored patient in a
\* terminal phase is eventually removed by a pass.
C17_EveryPatientLeaves ==
    \A id \in 1..Max(Floor, BootCount) :
        /\ (id \in DOMAIN patients) ~>
               (id \in DOMAIN patients /\ IsTerminal(patients[id]))
        /\ (id \in DOMAIN patients /\ IsTerminal(patients[id])) ~>
               (id \notin DOMAIN patients)

\* C18: with serial requests and no key expiry, a request on a stocked store
\* never leaves fewer patients than it found and leaves at most one more,
\* and one more only if it found fewer than the floor; after every request
\* the store holds between the bootstrap count and the floor.
C18_PopulationBounded ==
    [][last'.op = "request" =>
          LET before == Cardinality(DOMAIN patients)
              after == Cardinality(DOMAIN patients')
          IN /\ before > 0 =>
                   /\ after >= before
                   /\ after <= before + 1
                   /\ after = before + 1 => before < Floor
             /\ after >= BootCount
             /\ after <= Floor]_vars

\* a pass has just added a patient by the growth branch and the store is at
\* the floor
C18_Witness ==
    /\ PassCompleted
    /\ last.grown # {}
    /\ last.grown \subseteq DOMAIN patients
    /\ Cardinality(DOMAIN patients) = Floor

\* C16: when a store write fails in the renumbering loop the request fails
\* and nothing is undone: the removed patients stay deleted, the survivors
\* written before the failure hold their new phase and position, the other
\* survivors hold the records they had before the pass, and no replacement
\* is in the store.
C16_NoRollbackOnWriteFailure ==
    (reqs[1].pc = "failed" /\ reqs[1].removed_count > 0) =>
        LET req == reqs[1]
            removed == {id \in DOMAIN req.snapshot : IsTerminal(req.snapshot[id])}
            renumbered == AssignPositions(req.patient_list, 1, InitialCategoryPositions).patients
        IN /\ DOMAIN patients = DOMAIN req.snapshot \ removed
           /\ \A j \in DOMAIN req.patient_list :
                 LET id == req.patient_list[j].id
                 IN patients[id] = IF j < req.i THEN renumbered[j] ELSE req.snapshot[id]

\* a pass removed a patient and rewrote the first of two survivors, and the
\* write of the second failed: the two records differ from the ones read
C16_Witness ==
    /\ reqs[1].pc = "failed"
    /\ reqs[1].removed_count = 1
    /\ Len(reqs[1].patient_list) = 2
    /\ reqs[1].i = 2
    /\ patients[reqs[1].patient_list[1].id] # reqs[1].snapshot[reqs[1].patient_list[1].id]
    /\ patients[reqs[1].patient_list[2].id] = reqs[1].snapshot[reqs[1].patient_list[2].id]

\* the terminal patients both requests read, and so both removed
RemovedByBoth ==
    {id \in DOMAIN reqs[1].snapshot \cap DOMAIN reqs[2].snapshot :
        IsTerminal(reqs[1].snapshot[id])}

BothDone == \A r \in RequestIds : reqs[r].pc = "done"

\* C12: when two concurrent requests have both read, and so both removed,
\* the same terminal patient, then after both have finished two stored
\* patients share a global position, and the store holds at least one
\* patient more, for every patient removed twice, than either request read.
C12_RaceBreaksRanking ==
    (BothDone /\ RemovedByBoth # {}) =>
        /\ \E p \in DOMAIN patients : \E q \in DOMAIN patients :
              /\ p # q
              /\ patients[p].queue_position.global = patients[q].queue_position.global
        /\ \A r \in RequestIds :
              Cardinality(DOMAIN patients) >=
                 Cardinality(DOMAIN reqs[r].snapshot) + Cardinality(RemovedByBoth)

\* both requests have finished after removing the same two terminal
\* patients: the store holds the replacements of both, two patients more
\* than before, and its global positions are not 1..N
C12_Witness ==
    /\ BothDone
    /\ Cardinality(RemovedByBoth) = 2
    /\ Cardinality(DOMAIN patients) >= Cardinality(DOMAIN reqs[1].snapshot) + 2
    /\ {patients[id].queue_position.global : id \in DOMAIN patients}
           # 1..Cardinality(DOMAIN patients)

====
